---- MODULE Spec2Model ----
(***************************************************************************)
(* wisemonk: the per-channel Counter (bucket list, pause timestamp, inbound *)
(* queue), its dispatch loop checkOrIncr, the goroutines it starts          *)
(* (sendMessage, the pause-expiry sleeper) and the ingress loop listen.     *)
(*                                                                          *)
(* Time is a whole number of clock units.  c.buckets is shared without a    *)
(* lock between the dispatch loop and the goroutines; the model interleaves *)
(* them at whole reads and writes of the bucket list, and a clear that      *)
(* lands inside Increment or Count may also end in the runtime panic the    *)
(* stale index produces.                                                    *)
(***************************************************************************)
EXTENDS Integers, Sequences, FiniteSets, TLC

VARIABLES
    now,        \* time.Now(), in clock units
    conf,       \* Config: DiscKey set or "", Channels (the configured ids)
    cmap,       \* conf.Channels: channel id -> Counter
    pc,         \* channel id -> where checkOrIncr of that Counter is
    cur,        \* channel id -> the *slack.Msg the dispatch loop is handling
    raced,      \* channel id -> what a clear did to the running Increment/Count
    tasks,      \* channel id -> the running `go sendMessage` goroutines
    timers,     \* channel id -> wake-up times of the sleeping expiry goroutines
    held,       \* the message listen is blocked on (c.messages <- &m), or NoMsg
    arrived,    \* number of events taken from rtm.IncomingEvents so far
    halted,     \* "no", "fatal" (log.Fatal) or "panic" (runtime error)
    last,       \* the step taken last
    out,        \* the outbound messages (rtm.SendMessage) of the last step
    recorded,   \* direct calls: what Increment recorded since the list was last nil
    alerted     \* history: channel id -> the timestamps of the buckets of the
                \* list that a Count at or above MaxMsg has counted

vars == <<now, conf, cmap, pc, cur, raced, tasks, timers, held, arrived,
          halted, last, out, recorded, alerted>>

----------------------------------------------------------------------------
(* Bounds of the model *)

\* the clock runs from 0 to MaxTime
MaxTime == 2
\* at most this many events are taken from rtm.IncomingEvents
MaxArrivals == 2
\* c.Interval of every configured channel, in clock units
IntervalLen == 2
\* c.MaxMsg of every configured channel
MaxMsgCfg == 1
\* capacity of c.messages (the program makes it 500)
QueueCap == 1
\* an inbound timestamp lies at most this far behind the clock
TsSkew == 1
\* time.Hour in clock units
Hour == 3
\* direct calls of the Counter methods: at most this many Increment calls
MaxCalls == 3

----------------------------------------------------------------------------
(* Sequences *)

RECURSIVE SumCounts(_)
SumCounts(bs) ==
    IF bs = <<>> THEN 0 ELSE Head(bs).count + SumCounts(Tail(bs))

----------------------------------------------------------------------------
(* Bucket, ByTimestamp, sort.Sort *)

Bucket(utime, count, msgs) == [utime |-> utime, count |-> count, msgs |-> msgs]

\* ByTimestamp.Less
Less(a, b) == a.utime < b.utime

RECURSIVE InsertSorted(_, _)
InsertSorted(b, s) ==
    IF s = <<>> THEN <<b>>
    ELSE IF Less(b, Head(s)) THEN <<b>> \o s
    ELSE <<Head(s)>> \o InsertSorted(b, Tail(s))

\* a sort.Sort that leaves the list as it finds it
SortByTimestamp_AsFound(bs) == bs

\* sort.Sort(ByTimestamp(c.buckets)): ascending by utime.  sort.Sort is not
\* stable; the order of equal keys is whatever the insertion below gives.
RECURSIVE SortByTimestamp(_)
SortByTimestamp(bs) ==
    IF bs = <<>> THEN <<>>
    ELSE InsertSorted(bs[Len(bs)], SortByTimestamp(SubSeq(bs, 1, Len(bs) - 1)))

----------------------------------------------------------------------------
(* Counter.Count *)

\* time.Now().Add(-interval).Unix()
TimeSince(t, interval) == t - interval

\* the loop below with `idx = i + 1` for `idx = i`
RECURSIVE FirstAfter_OneBased(_, _, _)
FirstAfter_OneBased(bs, timeSince, i) ==
    IF i > Len(bs) THEN 0
    ELSE IF bs[i].utime > timeSince THEN i
    ELSE FirstAfter_OneBased(bs, timeSince, i + 1)

\* the loop `for i, b := range c.buckets { if b.utime > timeSince {idx = i; break} }`
\* as a 0-based index; idx stays 0 when no bucket passes the test
RECURSIVE FirstAfter(_, _, _)
FirstAfter(bs, timeSince, i) ==
    IF i > Len(bs) THEN 0
    ELSE IF bs[i].utime > timeSince THEN i - 1
    ELSE FirstAfter(bs, timeSince, i + 1)

CountIdx(bs, t, interval) ==
    FirstAfter(SortByTimestamp(bs), TimeSince(t, interval), 1)

\* `if idx > 0 { shift left by idx; c.buckets = c.buckets[0:len(c.buckets)-idx] }`
LeftShift(bs, idx) ==
    IF idx > 0 THEN SubSeq(bs, idx + 1, Len(bs)) ELSE bs

\* the bucket list Count leaves behind
CountBuckets(bs, t, interval) ==
    LeftShift(SortByTimestamp(bs), CountIdx(bs, t, interval))

\* the value Count returns
CountValue(bs, t, interval) == SumCounts(CountBuckets(bs, t, interval))

----------------------------------------------------------------------------
(* Counter.Increment *)

\* strconv.ParseFloat(m.Timestamp, 64) then int64(tsf): a numeric timestamp is
\* seconds with a fraction, and the conversion drops the fraction
\* (ParseFloatOk_Always: a ParseFloat that never returns an error)
ParseFloatOk_Always(ts) == TRUE
ParseFloatOk(ts) == ts.num
Int64Of(ts) == ts.sec

\* substituteUsernames, then fmt.Sprintf("%-14s: %s", memmap[m.User], m.Text):
\* the texts here name no user id and their sender is not in memmap, so the
\* line is the padded empty name, the colon, and the text
FormatMsg(m) == <<":">> \o m.Text

\* the loop from the last bucket down to the first: index of the bucket whose
\* utime is ts, or 0
RECURSIVE FindBucket(_, _, _)
FindBucket(bs, ts, i) ==
    IF i < 1 THEN 0
    ELSE IF bs[i].utime = ts THEN i
    ELSE FindBucket(bs, ts, i - 1)

\* Increment without the search for an existing bucket
IncrementBuckets_NoMerge(bs, ts, msg) == Append(bs, Bucket(ts, 1, <<msg>>))

IncrementBuckets(bs, ts, msg) ==
    LET i == FindBucket(bs, ts, Len(bs))
    IN  IF i > 0
        THEN [bs EXCEPT ![i] = Bucket(bs[i].utime, bs[i].count + 1,
                                       Append(bs[i].msgs, msg))]
        ELSE Append(bs, Bucket(ts, 1, <<msg>>))

----------------------------------------------------------------------------
(* Message text.  A text is its words, which single blanks separate. *)

\* index of the first place where the words pat occur in text, or 0
RECURSIVE IndexFrom(_, _, _)
IndexFrom(text, pat, i) ==
    IF i + Len(pat) - 1 > Len(text) THEN 0
    ELSE IF SubSeq(text, i, i + Len(pat) - 1) = pat THEN i
    ELSE IndexFrom(text, pat, i + 1)

\* a word whose first character is a decimal digit
StartsWithDigit(w) == w \in {"5", "0s", "20m", "40m", "60m", "200h", "1hr"}

\* that digit, as strconv.Atoi reads it
FirstDigit(w) ==
    CASE w \in {"5"} -> 5
      [] w \in {"0s"} -> 0
      [] w \in {"20m", "200h"} -> 2
      [] w \in {"40m"} -> 4
      [] w \in {"60m"} -> 6
      [] w \in {"1hr"} -> 1
      [] OTHER -> 0

\* meditateRegex `wisemonk meditate for (.+)`: res[1], or <<>> when res == nil
meditateRegex(text) ==
    LET i == IndexFrom(text, <<"wisemonk", "meditate", "for">>, 1)
    IN  IF i = 0 \/ i + 3 > Len(text) THEN <<>>
        ELSE SubSeq(text, i + 3, Len(text))

\* createRegex `wisemonk create topic (.+)`: res[1], or <<>> when res == nil
createRegex(text) ==
    LET i == IndexFrom(text, <<"wisemonk", "create", "topic">>, 1)
    IN  IF i = 0 \/ i + 3 > Len(text) THEN <<>>
        ELSE SubSeq(text, i + 3, Len(text))

\* last word at or after position j of text that starts with a digit, or 0
RECURSIVE LastDigitWord(_, _, _)
LastDigitWord(text, j, k) ==
    IF k < j THEN 0
    ELSE IF StartsWithDigit(text[k]) THEN k
    ELSE LastDigitWord(text, j, k - 1)

\* queryRegex `wisemonk query (.+) (\d)`: (.+) is greedy, so (\d) is the first
\* character of the last word that starts with a digit and leaves (.+) a word
queryRegex(text) ==
    LET i == IndexFrom(text, <<"wisemonk", "query">>, 1)
        k == IF i = 0 THEN 0 ELSE LastDigitWord(text, i + 3, Len(text))
    IN  IF k = 0 THEN [match |-> FALSE, query |-> <<>>, digit |-> 0]
        ELSE [match |-> TRUE, query |-> SubSeq(text, i + 2, k - 1),
              digit |-> FirstDigit(text[k])]

\* time.ParseDuration of the captured words: a blank is no part of a duration
ParseDuration(words) ==
    IF Len(words) # 1 THEN [ok |-> FALSE, d |-> 0]
    ELSE CASE words[1] = "0s" -> [ok |-> TRUE, d |-> 0]
           [] words[1] = "20m" -> [ok |-> TRUE, d |-> 1]
           [] words[1] = "40m" -> [ok |-> TRUE, d |-> 2]
           [] words[1] = "60m" -> [ok |-> TRUE, d |-> Hour]
           [] words[1] = "200h" -> [ok |-> TRUE, d |-> 200 * Hour]
           [] words[1] = "-20m" -> [ok |-> TRUE, d |-> 0 - 1]
           [] OTHER -> [ok |-> FALSE, d |-> 0]

----------------------------------------------------------------------------
(* Outbound messages *)

\* rtm.NewOutgoingMessage(text, channel); arg is the number the text carries
NewOutgoingMessage(msg, arg, channel) ==
    [msg |-> msg, arg |-> arg, channel |-> channel]

NoReply == ""
R_Understand == "Sorry, I don't understand you."
R_BackInTime == "Sorry, going back in time is not what I can do."
R_TooLong == "It's hard to meditate for more than an hour at one go you know."
R_Meditating == "I am meditating. My meditation will finish in"
R_Okay == "Okay, I am going to meditate for"
R_NewTopic == "New topic created with url: "
R_Found == "search results"
R_NotFound == "Sorry, I didn't find anything."
R_DidntUnderstand == "Sorry, I didn't understand you."
R_Yoda == "yoda"

----------------------------------------------------------------------------
(* Counter and the commands of checkOrIncr *)

\* zero time.Time: before every clock value
ZeroTime == 0 - 1

\* a Counter as main sets it up from the configuration
NewCounter(id) ==
    [buckets |-> <<>>, ChannelId |-> id, meditationEnd |-> ZeroTime,
     messages |-> <<>>, Interval |-> IntervalLen, MaxMsg |-> MaxMsgCfg]

\* c.MeditationEnd(): c.meditationEnd.Sub(time.Now())
MeditationEnd(c, t) == c.meditationEnd - t

\* the tick branch without its test
NotMeditating_Always(c, t) == TRUE

\* the test of the tick branch, `if d := c.MeditationEnd(); d < 0`
NotMeditating(c, t) == MeditationEnd(c, t) < 0

\* a SetMeditationEnd whose write is lost
SetMeditationEnd_Lost(c, t, d) == c

\* c.SetMeditationEnd(d): c.meditationEnd = time.Now().Add(d)
SetMeditationEnd(c, t, d) == [c EXCEPT !.meditationEnd = t + d]

\* the inner loop of createTopic's rendering, `for _, m := range b.msgs`: one
\* line `[count] m` per message, count going up by one
RECURSIVE RenderMsgs(_, _)
RenderMsgs(msgs, count) ==
    IF msgs = <<>> THEN <<>>
    ELSE <<[n |-> count, m |-> Head(msgs)]>> \o RenderMsgs(Tail(msgs), count + 1)

\* the outer loop, `for _, b := range c.buckets`, entered with count
RECURSIVE RenderFrom(_, _)
RenderFrom(bs, count) ==
    IF bs = <<>> THEN <<>>
    ELSE RenderMsgs(Head(bs).msgs, count)
           \o RenderFrom(Tail(bs), count + Len(Head(bs).msgs))

\* the rendering with a count that starts again at 1 in every bucket
RECURSIVE Transcript_PerBucket(_)
Transcript_PerBucket(bs) ==
    IF bs = <<>> THEN <<>>
    ELSE RenderMsgs(Head(bs).msgs, 1) \o Transcript_PerBucket(Tail(bs))

\* the rendering loop of createTopic, `count := 1` and the two loops: the
\* lines between the two code fences
Transcript(bs) == RenderFrom(bs, 1)

\* what http.Post and the decoding in createTopic can end in
PostResults == {"url", "empty", "fatal"}
\* what runQueryAndParseResponse and the filtering in searchDiscourse can end in
SearchResults == {"found", "none", "fatal"}

\* searchDiscourse(c, m, rtm) with the outcome sr of the search request;
\* res[2] is one decimal digit, which strconv.Atoi never rejects, so the reply
\* "Sorry, I didn't understand you." of the err != nil branch is never sent
searchDiscourse(c, key, text, sr) ==
    LET res == queryRegex(text)
    IN  IF ~key \/ ~res.match THEN [fatal |-> FALSE, sent |-> <<>>]
        ELSE IF sr = "fatal" THEN [fatal |-> TRUE, sent |-> <<>>]
        ELSE IF sr = "found" /\ res.digit > 0
        THEN [fatal |-> FALSE,
              sent |-> <<NewOutgoingMessage(R_Found, res.digit, c.ChannelId)>>]
        ELSE [fatal |-> FALSE,
              sent |-> <<NewOutgoingMessage(R_NotFound, 0, c.ChannelId)>>]

\* createNewTopic(c, m, rtm) with the outcome pr of createTopic's request
createNewTopic(c, key, text, pr) ==
    LET res == createRegex(text)
    IN  IF ~key \/ res = <<>>
        THEN [fatal |-> FALSE, sent |-> <<>>, c |-> c, raw |-> <<>>, did |-> FALSE]
        ELSE IF pr = "fatal"
        THEN [fatal |-> TRUE, sent |-> <<>>, c |-> c, raw |-> Transcript(c.buckets),
              did |-> FALSE]
        ELSE [fatal |-> FALSE,
              sent |-> <<NewOutgoingMessage(R_NewTopic,
                             IF pr = "url" THEN 1 ELSE 0, c.ChannelId)>>,
              c |-> [c EXCEPT !.buckets = <<>>],
              raw |-> Transcript(c.buckets), did |-> TRUE]

\* askToMeditate without its test `if d := c.MeditationEnd(); d > 0`
askToMeditate_NoPausedTest(c, text, t) ==
    LET res == meditateRegex(text)
        p == ParseDuration(res)
        no(reply, arg) == [reply |-> reply, arg |-> arg, c |-> c,
                           started |-> FALSE, d |-> 0]
    IN  IF res = <<>> THEN no(NoReply, 0)
        ELSE IF ~p.ok THEN no(R_Understand, 0)
        ELSE IF p.d < 0 THEN no(R_BackInTime, 0)
        ELSE IF p.d >= Hour THEN no(R_TooLong, 0)
        ELSE [reply |-> R_Okay, arg |-> p.d, c |-> SetMeditationEnd(c, t, p.d),
              started |-> TRUE, d |-> p.d]

\* askToMeditate with the test of c.MeditationEnd() moved before the tests of
\* the duration
askToMeditate_PausedFirst(c, text, t) ==
    LET res == meditateRegex(text)
        p == ParseDuration(res)
        no(reply, arg) == [reply |-> reply, arg |-> arg, c |-> c,
                           started |-> FALSE, d |-> 0]
    IN  IF res = <<>> THEN no(NoReply, 0)
        ELSE IF MeditationEnd(c, t) > 0 THEN no(R_Meditating, MeditationEnd(c, t))
        ELSE IF ~p.ok THEN no(R_Understand, 0)
        ELSE IF p.d < 0 THEN no(R_BackInTime, 0)
        ELSE IF p.d >= Hour THEN no(R_TooLong, 0)
        ELSE [reply |-> R_Okay, arg |-> p.d, c |-> SetMeditationEnd(c, t, p.d),
              started |-> TRUE, d |-> p.d]

\* askToMeditate(c, m) at time t: the reply, the Counter afterwards, and
\* whether the expiry goroutine was started (it sleeps d)
askToMeditate(c, text, t) ==
    LET res == meditateRegex(text)
        p == ParseDuration(res)
        no(reply, arg) == [reply |-> reply, arg |-> arg, c |-> c,
                           started |-> FALSE, d |-> 0]
    IN  IF res = <<>> THEN no(NoReply, 0)
        ELSE IF ~p.ok THEN no(R_Understand, 0)
        ELSE IF p.d < 0 THEN no(R_BackInTime, 0)
        ELSE IF p.d >= Hour THEN no(R_TooLong, 0)
        ELSE IF MeditationEnd(c, t) > 0 THEN no(R_Meditating, MeditationEnd(c, t))
        ELSE [reply |-> R_Okay, arg |-> p.d, c |-> SetMeditationEnd(c, t, p.d),
              started |-> TRUE, d |-> p.d]

----------------------------------------------------------------------------
(* State *)

\* slack channel ids events can carry; conf.Channels holds some of them
ChannelIds == {"general", "random"}

NoStamp == [num |-> FALSE, sec |-> 0, frac |-> 0]
NoMsg == [Channel |-> "", Timestamp |-> NoStamp, Text |-> <<>>]
\* the locals of the dispatch loop: the message of this turn, Count's idx,
\* and, after a clear that raced with it, the list the operation still works on
NoLocals == [msg |-> NoMsg, idx |-> 0, seen |-> <<>>]

\* the timestamps of the buckets of a list
Utimes(bs) == {bs[i].utime : i \in 1..Len(bs)}

\* a step: the operation, its channel, and a number: for "count" and "Count"
\* what Count returned, for "increment" by how much the counts of the list grew
\* and how many sendMessage goroutines it started
StepG(op, ch, n, go) == [op |-> op, ch |-> ch, n |-> n, go |-> go]
StepN(op, ch, n) == StepG(op, ch, n, 0)
Step(op, ch) == StepN(op, ch, 0)

\* a `go sendMessage(c, rtm)` goroutine: before its first read of c.buckets
\* ("start"), waiting for the answer to createTopic's request ("post") with
\* the transcript it rendered, or in callYoda between `c.buckets = nil` and
\* rtm.SendMessage ("yoda"), where link is 1 when the message carries a url
NewTask == [pc |-> "start", raw |-> <<>>, link |-> 0]

RemoveAt(s, i) == SubSeq(s, 1, i - 1) \o SubSeq(s, i + 1, Len(s))

\* the goroutines of a channel have no order: the sequence that holds them is
\* kept ordered by how far each one is, so that two states with the same
\* goroutines are one state
TaskRank(t) ==
    IF t.pc = "start" THEN 0
    ELSE IF t.pc = "post" THEN 1 + Len(t.raw)
    ELSE 0 - 1 - t.link
RECURSIVE PutTask(_, _)
PutTask(ts, t) ==
    IF ts = <<>> THEN <<t>>
    ELSE IF TaskRank(t) <= TaskRank(Head(ts)) THEN <<t>> \o ts
    ELSE <<Head(ts)>> \o PutTask(Tail(ts), t)

\* at most this many sendMessage goroutines of one channel at a time
MaxTasks == 2

\* what a goroutine's `c.buckets = nil` did to the Increment or Count that the
\* dispatch loop is inside: "no" (it came before the operation read the list),
\* "hit" (the operation goes on with its stale index into the nil list) or
\* "late" (the operation goes on with the slice it read before the clear)
RaceOutcomes == {"no", "hit", "late"}

TypeOK ==
    /\ now \in 0..MaxTime
    /\ conf.Channels \subseteq ChannelIds
    /\ DOMAIN cmap = conf.Channels
    /\ halted \in {"no", "fatal", "panic"}
    /\ \A c \in conf.Channels :
          /\ pc[c] \in {"select", "incr", "count"}
          /\ raced[c] \in RaceOutcomes
          /\ Len(cmap[c].messages) <= QueueCap
          /\ Len(tasks[c]) <= MaxTasks

InitWith(channels, keys) ==
    /\ now = 0
    /\ conf \in [DiscKey : keys, Channels : {channels}]
    /\ cmap = [c \in channels |-> NewCounter(c)]
    /\ pc = [c \in channels |-> "select"]
    /\ cur = [c \in channels |-> NoLocals]
    /\ raced = [c \in channels |-> "no"]
    /\ tasks = [c \in channels |-> <<>>]
    /\ timers = [c \in channels |-> <<>>]
    /\ held = NoMsg
    /\ arrived = 0
    /\ halted = "no"
    /\ last = Step("init", "")
    /\ out = <<>>
    /\ recorded = <<>>
    /\ alerted = [c \in channels |-> {}]

\* main with one configured channel, with and without a discourse key
Init == InitWith({"general"}, BOOLEAN)

----------------------------------------------------------------------------
(* Inbound events *)

Stamp(sec, frac) == [num |-> TRUE, sec |-> sec, frac |-> frac]

T_Plain == <<"hello">>
T_Meditate == <<"wisemonk", "meditate", "for", "20m">>
T_Create == <<"wisemonk", "create", "topic", "notes">>
T_Query == <<"wisemonk", "query", "release", "5">>
T_CreateMeditate ==
    <<"wisemonk", "create", "topic", "wisemonk", "meditate", "for", "20m">>
T_All == <<"wisemonk", "query", "wisemonk", "create", "topic",
           "wisemonk", "meditate", "for", "20m">>

Texts == {T_Plain, T_Meditate, T_Create, T_All}

\* the whole seconds an inbound timestamp can name at time t
Stamps(t) == {Stamp(s, 0) : s \in {x \in (t - TsSkew)..t : x >= 0}}

Msg(channel, timestamp, text) ==
    [Channel |-> channel, Timestamp |-> timestamp, Text |-> text]

\* the message events the transport can deliver at time t: a plain text on a
\* configured channel stamped now or up to TsSkew earlier, a command stamped
\* now, a message of a channel that is not configured, and a message whose
\* timestamp is no number
Inbound(t) ==
    {Msg(ch, ts, T_Plain) : ch \in conf.Channels, ts \in Stamps(t)}
      \cup {Msg(ch, Stamp(t, 0), text) : ch \in conf.Channels, text \in Texts}
      \cup {Msg(ch, Stamp(t, 0), T_Plain) : ch \in ChannelIds \ conf.Channels}
      \cup {Msg(ch, NoStamp, T_Plain) : ch \in conf.Channels}

----------------------------------------------------------------------------
(* The steps of the program *)

Running == halted = "no"

\* time passes.  A clock unit is minutes long: no dispatch loop is inside the
\* handling of a message or of a tick while the clock moves on.
Advance ==
    /\ Running
    /\ now < MaxTime
    /\ \A c \in conf.Channels : pc[c] = "select"
    /\ now' = now + 1
    /\ last' = Step("advance", "")
    /\ out' = <<>>
    /\ UNCHANGED <<conf, cmap, pc, cur, raced, tasks, timers, held, arrived,
                   halted, recorded, alerted>>

\* listen with a send that never blocks (a queue without a capacity)
Listen_Unbounded(m) ==
    /\ Running
    /\ held = NoMsg
    /\ arrived < MaxArrivals
    /\ arrived' = arrived + 1
    /\ last' = Step("listen", m.Channel)
    /\ out' = <<>>
    /\ IF m.Channel \notin conf.Channels
       THEN UNCHANGED cmap
       ELSE cmap' = [cmap EXCEPT ![m.Channel].messages = Append(@, m)]
    /\ UNCHANGED <<now, conf, pc, cur, raced, tasks, timers, held, halted,
                   recorded, alerted>>

\* listen without the lookup in conf.Channels: a message of a channel that is
\* not configured goes to the queue of some Counter
Listen_AnyQueue(m) ==
    /\ Running
    /\ held = NoMsg
    /\ arrived < MaxArrivals
    /\ arrived' = arrived + 1
    /\ last' = Step("listen", m.Channel)
    /\ out' = <<>>
    /\ LET q == IF m.Channel \in conf.Channels THEN m.Channel
                ELSE CHOOSE c \in conf.Channels : TRUE
       IN  IF Len(cmap[q].messages) >= QueueCap
           THEN UNCHANGED <<cmap, held>>
           ELSE /\ cmap' = [cmap EXCEPT ![q].messages = Append(@, m)]
                /\ UNCHANGED held
    /\ UNCHANGED <<now, conf, pc, cur, raced, tasks, timers, halted,
                   recorded, alerted>>

\* listen: one message event.  A message of a channel that is not configured
\* is dropped; `c.messages <- &m` blocks while the queue is full.
Listen(m) ==
    /\ Running
    /\ held = NoMsg
    /\ arrived < MaxArrivals
    /\ arrived' = arrived + 1
    /\ last' = Step("listen", m.Channel)
    /\ out' = <<>>
    /\ IF m.Channel \notin conf.Channels
       THEN UNCHANGED <<cmap, held>>
       ELSE IF Len(cmap[m.Channel].messages) >= QueueCap
       THEN held' = m /\ UNCHANGED cmap
       ELSE /\ cmap' = [cmap EXCEPT ![m.Channel].messages = Append(@, m)]
            /\ UNCHANGED held
    /\ UNCHANGED <<now, conf, pc, cur, raced, tasks, timers, halted,
                   recorded, alerted>>

\* listen: the blocked send completes once the queue has room
ListenUnblock ==
    /\ Running
    /\ held # NoMsg
    /\ Len(cmap[held.Channel].messages) < QueueCap
    /\ cmap' = [cmap EXCEPT ![held.Channel].messages = Append(@, held)]
    /\ held' = NoMsg
    /\ last' = Step("unblock", held.Channel)
    /\ out' = <<>>
    /\ UNCHANGED <<now, conf, pc, cur, raced, tasks, timers, arrived, halted,
                   recorded, alerted>>

\* checkOrIncr, `case msg := <-c.messages`: searchDiscourse, createNewTopic,
\* askToMeditate and its reply, then Increment up to its loop over c.buckets
\* (the channel check, ParseFloat, the formatting).  sr and pr are the
\* outcomes of the two requests.
Receive(ch, sr, pr) ==
    /\ Running
    /\ pc[ch] = "select"
    /\ cmap[ch].messages # <<>>
    /\ LET m == Head(cmap[ch].messages)
           c1 == [cmap[ch] EXCEPT !.messages = Tail(@)]
           s == searchDiscourse(c1, conf.DiscKey, m.Text, sr)
           n == createNewTopic(c1, conf.DiscKey, m.Text, pr)
           a == askToMeditate(n.c, m.Text, now)
           reply == IF a.reply = NoReply THEN <<>>
                    ELSE <<NewOutgoingMessage(a.reply, a.arg, c1.ChannelId)>>
       IN  /\ last' = Step("receive", ch)
           /\ IF s.fatal
              THEN /\ halted' = "fatal"
                   /\ cmap' = [cmap EXCEPT ![ch] = c1]
                   /\ out' = <<>>
                   /\ UNCHANGED <<pc, cur, timers>>
              ELSE IF n.fatal
              THEN /\ halted' = "fatal"
                   /\ cmap' = [cmap EXCEPT ![ch] = c1]
                   /\ out' = s.sent
                   /\ UNCHANGED <<pc, cur, timers>>
              ELSE /\ cmap' = [cmap EXCEPT ![ch] = a.c]
                   /\ out' = s.sent \o n.sent \o reply
                   /\ timers' = IF a.started
                                THEN [timers EXCEPT ![ch] = Append(@, now + a.d)]
                                ELSE timers
                   /\ IF m.Channel # c1.ChannelId \/ ~ParseFloatOk(m.Timestamp)
                      THEN halted' = "fatal" /\ UNCHANGED <<pc, cur>>
                      ELSE /\ pc' = [pc EXCEPT ![ch] = "incr"]
                           /\ cur' = [cur EXCEPT ![ch] =
                                        [msg |-> m, idx |-> 0, seen |-> <<>>]]
                           /\ UNCHANGED halted
           /\ alerted' = IF n.did THEN [alerted EXCEPT ![ch] = {}] ELSE alerted
    /\ UNCHANGED <<now, conf, raced, tasks, held, arrived, recorded>>

\* Increment: the loop over c.buckets and the append.  A clear that landed
\* inside the loop leaves it indexing a nil list ("hit"), or leaves it with the
\* slice it read ("late"): then `b.count++` goes to the array the list no
\* longer names, and `c.buckets = append(c.buckets, ...)` writes the old list
\* back with the new bucket.
Increment(ch) ==
    /\ Running
    /\ pc[ch] = "incr"
    /\ out' = <<>>
    /\ IF raced[ch] = "hit"
       THEN halted' = "panic" /\ UNCHANGED <<cmap, pc, cur, raced>>
       ELSE LET ts == Int64Of(cur[ch].msg.Timestamp)
                seen == cur[ch].seen
            IN  /\ cmap' = [cmap EXCEPT ![ch].buckets =
                              IF raced[ch] = "late"
                              THEN IF FindBucket(seen, ts, Len(seen)) > 0
                                   THEN @
                                   ELSE IncrementBuckets(seen, ts,
                                                         FormatMsg(cur[ch].msg))
                              ELSE IncrementBuckets(@, ts, FormatMsg(cur[ch].msg))]
                /\ pc' = [pc EXCEPT ![ch] = "select"]
                /\ cur' = [cur EXCEPT ![ch] = NoLocals]
                /\ raced' = [raced EXCEPT ![ch] = "no"]
                /\ UNCHANGED halted
    /\ last' = StepN("increment", ch,
                     SumCounts(cmap'[ch].buckets) - SumCounts(cmap[ch].buckets))
    /\ UNCHANGED <<now, conf, tasks, timers, held, arrived, recorded,
                   alerted>>


\* checkOrIncr, `case <-ticker.C`: nothing while the monk meditates; else
\* Count up to the end of its scan for idx (the sort, timeSince, the scan)
Tick(ch) ==
    /\ Running
    /\ pc[ch] = "select"
    /\ last' = Step("tick", ch)
    /\ out' = <<>>
    /\ IF NotMeditating(cmap[ch], now)
       THEN /\ Len(tasks[ch]) < MaxTasks
            /\ cmap' = [cmap EXCEPT ![ch].buckets = SortByTimestamp(@)]
            /\ pc' = [pc EXCEPT ![ch] = "count"]
            /\ cur' = [cur EXCEPT ![ch] =
                         [msg |-> NoMsg,
                          idx |-> CountIdx(cmap[ch].buckets, now,
                                           cmap[ch].Interval),
                          seen |-> <<>>]]
       ELSE UNCHANGED <<cmap, pc, cur>>
    /\ UNCHANGED <<now, conf, raced, tasks, timers, held, arrived, halted,
                   recorded, alerted>>

\* the rest of Count (the left shift, the sum) and `if count >= c.MaxMsg
\* { go sendMessage(c, rtm) }`.  A clear that landed before the left shift
\* leaves it slicing a nil list ("hit"), or comes between the read and the
\* write of `c.buckets = c.buckets[0 : len(c.buckets)-idx]` ("late"), which
\* then writes the shifted old list back.
Count(ch) ==
    /\ Running
    /\ pc[ch] = "count"
    /\ out' = <<>>
    /\ IF raced[ch] = "hit"
       THEN /\ halted' = "panic"
            /\ last' = Step("count", ch)
            /\ UNCHANGED <<cmap, pc, cur, raced, tasks, alerted>>
       ELSE LET bs == LeftShift(IF raced[ch] = "late" THEN cur[ch].seen
                                ELSE cmap[ch].buckets, cur[ch].idx)
                count == SumCounts(bs)
            IN  /\ cmap' = [cmap EXCEPT ![ch].buckets = bs]
                /\ last' = StepG("count", ch, count,
                                  IF count >= cmap[ch].MaxMsg THEN 1 ELSE 0)
                /\ tasks' = IF count >= cmap[ch].MaxMsg
                            THEN [tasks EXCEPT ![ch] = PutTask(@, NewTask)]
                            ELSE tasks
                /\ alerted' = [alerted EXCEPT ![ch] =
                                 IF count >= cmap[ch].MaxMsg THEN Utimes(bs)
                                 ELSE @ \cap Utimes(bs)]
                /\ pc' = [pc EXCEPT ![ch] = "select"]
                /\ cur' = [cur EXCEPT ![ch] = NoLocals]
                /\ raced' = [raced EXCEPT ![ch] = "no"]
                /\ UNCHANGED halted
    /\ UNCHANGED <<now, conf, timers, held, arrived, recorded>>

\* what `c.buckets = nil` in a goroutine can do to the dispatch loop: nothing,
\* or land inside the loop of Increment over a list that was not empty, or
\* before the end of Count's left shift by idx > 0
ClearOutcomes(ch) ==
    IF raced[ch] # "no" THEN {raced[ch]}
    ELSE IF \/ pc[ch] = "incr" /\ cmap[ch].buckets # <<>>
            \/ pc[ch] = "count" /\ cur[ch].idx > 0
    THEN RaceOutcomes
    ELSE {"no"}

\* a clear that reaches the bucket list of every Counter
ClearBuckets_AllChannels(ch, r) ==
    /\ cmap' = [c \in DOMAIN cmap |-> [cmap[c] EXCEPT !.buckets = <<>>]]
    /\ raced' = [raced EXCEPT ![ch] = r]
    /\ alerted' = [alerted EXCEPT ![ch] = {}]
    /\ cur' = IF r = "late" /\ raced[ch] = "no"
              THEN [cur EXCEPT ![ch].seen = cmap[ch].buckets]
              ELSE cur

\* `c.buckets = nil` in a goroutine, with the outcome r for the dispatch loop
ClearBuckets(ch, r) ==
    /\ cmap' = [cmap EXCEPT ![ch].buckets = <<>>]
    /\ raced' = [raced EXCEPT ![ch] = r]
    /\ alerted' = [alerted EXCEPT ![ch] = {}]
    /\ cur' = IF r = "late" /\ raced[ch] = "no"
              THEN [cur EXCEPT ![ch].seen = cmap[ch].buckets]
              ELSE cur

\* callYoda(c, rtm, m) in goroutine i, up to its `c.buckets = nil`; the
\* message is built and sent after it.  link is 1 when m carries the url of
\* the topic
callYoda(ch, i, link, r) ==
    /\ ClearBuckets(ch, r)
    /\ tasks' = [tasks EXCEPT ![ch] =
                   PutTask(RemoveAt(@, i),
                           [pc |-> "yoda", raw |-> <<>>, link |-> link])]

\* sendMessage, goroutine i of channel ch, up to createTopic's request: without
\* a discourse key callYoda up to its clear; with one, the title from
\* c.buckets[0].msgs[0] and the transcript
SendStart(ch, i, r) ==
    /\ Running
    /\ i \in 1..Len(tasks[ch])
    /\ tasks[ch][i].pc = "start"
    /\ r \in ClearOutcomes(ch)
    /\ out' = <<>>
    /\ IF ~conf.DiscKey
       THEN /\ callYoda(ch, i, 0, r)
            /\ last' = StepN("send", ch, 1)
            /\ UNCHANGED halted
       ELSE IF cmap[ch].buckets = <<>>
       THEN /\ halted' = "panic"
            /\ last' = Step("send", ch)
            /\ UNCHANGED <<cmap, raced, cur, tasks, alerted>>
       ELSE /\ tasks' = [tasks EXCEPT ![ch] =
                           PutTask(RemoveAt(@, i),
                                   [pc |-> "post",
                                    raw |-> Transcript(cmap[ch].buckets),
                                    link |-> 0])]
            /\ last' = Step("send", ch)
            /\ UNCHANGED <<cmap, raced, cur, halted, alerted>>
    /\ UNCHANGED <<now, conf, pc, timers, held, arrived, recorded>>

\* sendMessage after the request: log.Fatal, or callYoda, with or without the
\* url, up to its clear
SendPost(ch, i, pr, r) ==
    /\ Running
    /\ i \in 1..Len(tasks[ch])
    /\ tasks[ch][i].pc = "post"
    /\ r \in ClearOutcomes(ch)
    /\ out' = <<>>
    /\ IF pr = "fatal"
       THEN /\ halted' = "fatal"
            /\ last' = Step("post", ch)
            /\ UNCHANGED <<cmap, raced, cur, tasks, alerted>>
       ELSE /\ callYoda(ch, i, IF pr = "url" THEN 1 ELSE 0, r)
            /\ last' = StepN("post", ch, 1)
            /\ UNCHANGED halted
    /\ UNCHANGED <<now, conf, pc, timers, held, arrived, recorded>>

\* the end of callYoda in goroutine i: rtm.SendMessage of the one message
SendYoda(ch, i) ==
    /\ Running
    /\ i \in 1..Len(tasks[ch])
    /\ tasks[ch][i].pc = "yoda"
    /\ out' = <<NewOutgoingMessage(R_Yoda, tasks[ch][i].link,
                                   cmap[ch].ChannelId)>>
    /\ tasks' = [tasks EXCEPT ![ch] = RemoveAt(@, i)]
    /\ last' = Step("yoda", ch)
    /\ UNCHANGED <<now, conf, cmap, pc, cur, raced, timers, held, arrived,
                   halted, recorded, alerted>>

\* the goroutine askToMeditate starts: after time.Sleep(d), c.buckets = nil
Expire(ch, i, r) ==
    /\ Running
    /\ i \in 1..Len(timers[ch])
    /\ timers[ch][i] <= now
    /\ r \in ClearOutcomes(ch)
    /\ ClearBuckets(ch, r)
    /\ timers' = [timers EXCEPT ![ch] = RemoveAt(@, i)]
    /\ last' = Step("expire", ch)
    /\ out' = <<>>
    /\ UNCHANGED <<now, conf, pc, tasks, held, arrived, halted, recorded>>

DoListen == \E m \in Inbound(now) : Listen(m)
DoReceive ==
    \E ch \in conf.Channels, sr \in SearchResults, pr \in PostResults :
        Receive(ch, sr, pr)
DoIncrement == \E ch \in conf.Channels : Increment(ch)
DoTick == \E ch \in conf.Channels : Tick(ch)
DoCount == \E ch \in conf.Channels : Count(ch)
DoSendStart ==
    \E ch \in conf.Channels, i \in 1..MaxTasks, r \in RaceOutcomes :
        SendStart(ch, i, r)
DoSendPost ==
    \E ch \in conf.Channels, i \in 1..MaxTasks, pr \in PostResults,
       r \in RaceOutcomes : SendPost(ch, i, pr, r)
DoSendYoda == \E ch \in conf.Channels, i \in 1..MaxTasks : SendYoda(ch, i)
DoExpire ==
    \E ch \in conf.Channels, i \in 1..MaxArrivals, r \in RaceOutcomes :
        Expire(ch, i, r)

Next ==
    \/ Advance
    \/ DoListen
    \/ ListenUnblock
    \/ DoReceive
    \/ DoIncrement
    \/ DoTick
    \/ DoCount
    \/ DoSendStart
    \/ DoSendPost
    \/ DoSendYoda
    \/ DoExpire

Spec == Init /\ [][Next]_vars

----------------------------------------------------------------------------
(* The program under the scheduling its liveness rests on: plain messages
   only (no pause, no archive command), a ticker that keeps firing, and
   goroutines that keep running *)

\* plain messages of the configured channels with numeric timestamps
PlainInbound(t) ==
    {Msg(ch, ts, T_Plain) : ch \in conf.Channels, ts \in Stamps(t)}

DoListenPlain == \E m \in PlainInbound(now) : Listen(m)

\* time.NewTicker(time.Second * 10): the ticker's period and the run of a
\* sendMessage goroutine are far below a clock unit, so the last thing that
\* happens before the clock moves on is a tick that finds nothing to alert
\* for, with no goroutine still running
TickedAdvance ==
    /\ Advance
    /\ last.op = "count"
    /\ \A c \in conf.Channels : tasks[c] = <<>>

NextLive ==
    \/ TickedAdvance
    \/ DoListenPlain
    \/ ListenUnblock
    \/ DoReceive
    \/ DoIncrement
    \/ DoTick
    \/ DoCount
    \/ DoSendStart
    \/ DoSendPost
    \/ DoSendYoda

\* listen, every dispatch loop (it takes a queued message, finishes the
\* Increment or Count it is in, and takes the ticks of its ticker) and every
\* sendMessage goroutine (the request returns) keep making steps
Fairness ==
    /\ WF_vars(ListenUnblock)
    /\ WF_vars(DoReceive)
    /\ WF_vars(DoIncrement)
    /\ WF_vars(DoTick)
    /\ WF_vars(DoCount)
    /\ WF_vars(DoSendStart)
    /\ WF_vars(DoSendPost)
    /\ WF_vars(DoSendYoda)

SpecLive == Init /\ [][NextLive]_vars /\ Fairness

----------------------------------------------------------------------------------------------------------------------------------------
(* The program with two configured channels and a discourse key: main starts
   one dispatch loop per channel, and listen feeds both *)

\* the message events of two channels: a plain text on either, a pause
\* command on one of them, stamped now
InboundTwo(t) ==
    {Msg(ch, Stamp(t, 0), T_Plain) : ch \in conf.Channels}
      \cup {Msg("general", Stamp(t, 0), T_Meditate)}

DoListenTwo == \E m \in InboundTwo(now) : Listen(m)

NextTwo ==
    \/ Advance
    \/ DoListenTwo
    \/ ListenUnblock
    \/ DoReceive
    \/ DoIncrement
    \/ DoTick
    \/ DoCount
    \/ DoSendStart
    \/ DoSendPost
    \/ DoSendYoda
    \/ DoExpire

SpecTwo == InitWith(ChannelIds, {TRUE}) /\ [][NextTwo]_vars

----------------
(* The Counter alone: Increment, Count and `c.buckets = nil` called directly
   on a fresh Counter, as main_test.go calls them *)

\* the messages handed to Increment: any whole second of the clock's range,
\* with or without a fraction, two texts; and a message of another channel,
\* and one whose timestamp is not a number
CallMsgs ==
    {Msg("general", Stamp(sec, frac), text) :
        sec \in 0..MaxTime, frac \in {0, 5}, text \in {T_Plain, T_Meditate}}
      \cup {Msg("random", Stamp(0, 0), T_Plain), Msg("general", NoStamp, T_Plain)}

\* c.Increment(m, memmap): log.Fatalf on a channel mismatch, log.Fatal on a
\* timestamp ParseFloat rejects, else the bucket list with m recorded
CallIncrement(m) ==
    /\ Running
    /\ Len(recorded) < MaxCalls
    /\ IF m.Channel # cmap["general"].ChannelId \/ ~ParseFloatOk(m.Timestamp)
       THEN /\ halted' = "fatal"
            /\ UNCHANGED <<cmap, recorded>>
       ELSE /\ cmap' = [cmap EXCEPT !["general"].buckets =
                          IncrementBuckets(@, Int64Of(m.Timestamp),
                                           FormatMsg(m))]
            /\ recorded' = Append(recorded,
                                  [ts |-> Int64Of(m.Timestamp),
                                   msg |-> FormatMsg(m)])
            /\ UNCHANGED halted
    /\ cur' = [cur EXCEPT !["general"] = [msg |-> m, idx |-> 0, seen |-> <<>>]]
    /\ last' = Step("Increment", "general")
    /\ UNCHANGED <<now, conf, pc, raced, tasks, timers, held, arrived, out,
                   alerted>>

CallCount ==
    /\ Running
    /\ cmap' = [cmap EXCEPT !["general"].buckets =
                  CountBuckets(@, now, cmap["general"].Interval)]
    /\ last' = StepN("Count", "general",
                     CountValue(cmap["general"].buckets, now,
                                cmap["general"].Interval))
    /\ UNCHANGED <<now, conf, pc, cur, raced, tasks, timers, held, arrived,
                   halted, out, recorded, alerted>>

CallClear ==
    /\ Running
    /\ cmap["general"].buckets # <<>>
    /\ cmap' = [cmap EXCEPT !["general"].buckets = <<>>]
    /\ recorded' = <<>>
    /\ last' = Step("clear", "general")
    /\ UNCHANGED <<now, conf, pc, cur, raced, tasks, timers, held, arrived,
                   halted, out, alerted>>

DoCallIncrement == \E m \in CallMsgs : CallIncrement(m)

NextCounter ==
    \/ Advance
    \/ DoCallIncrement
    \/ CallCount
    \/ CallClear

SpecCounter == InitWith({"general"}, {FALSE}) /\ [][NextCounter]_vars

----------------------------------------------------------------------------
(* askToMeditate called directly, as main_test.go calls it, with the expiry
   goroutines it starts *)

T_Misspelt == <<"wisemonk", "meditat", "for", "20m">>
T_Meditate0 == <<"wisemonk", "meditate", "for", "0s">>
T_Meditate40 == <<"wisemonk", "meditate", "for", "40m">>
T_MeditateHour == <<"wisemonk", "meditate", "for", "60m">>
T_MeditateLong == <<"wisemonk", "meditate", "for", "200h">>
T_MeditateBack == <<"wisemonk", "meditate", "for", "-20m">>
T_MeditateHr == <<"wisemonk", "meditate", "for", "1hr">>
T_MeditateWords == <<"wisemonk", "meditate", "for", "20m", "please">>

MeditateTexts ==
    {T_Plain, T_Misspelt, T_Meditate, T_Meditate0, T_Meditate40, T_MeditateHour,
     T_MeditateLong, T_MeditateBack, T_MeditateHr, T_MeditateWords}

CallMeditate(text) ==
    /\ arrived < MaxArrivals
    /\ arrived' = arrived + 1
    /\ LET a == askToMeditate(cmap["general"], text, now)
       IN  /\ cmap' = [cmap EXCEPT !["general"] = a.c]
           /\ timers' = IF a.started
                        THEN [timers EXCEPT !["general"] = Append(@, now + a.d)]
                        ELSE timers
           /\ out' = IF a.reply = NoReply THEN <<>>
                     ELSE <<NewOutgoingMessage(a.reply, a.arg, "general")>>
    /\ cur' = [cur EXCEPT !["general"] =
                 [msg |-> Msg("general", NoStamp, text), idx |-> 0,
                  seen |-> <<>>]]
    /\ last' = Step("askToMeditate", "general")
    /\ UNCHANGED <<now, conf, pc, raced, tasks, held, halted, recorded,
                   alerted>>

DoCallMeditate == \E text \in MeditateTexts : CallMeditate(text)
DoWake == \E i \in 1..MaxArrivals : Expire("general", i, "no")

NextMeditate ==
    \/ Advance
    \/ DoCallMeditate
    \/ DoWake

SpecMeditate == InitWith({"general"}, {FALSE}) /\ [][NextMeditate]_vars

----------------------------------------------------------------------------
(* Claims about the Counter alone (SpecCounter) *)

\* the bucket list of the Counter under direct calls
Buckets == cmap["general"].buckets

\* the recorded messages whose whole-second timestamp is after now - window
RecordedInWindow ==
    {i \in 1..Len(recorded) : recorded[i].ts > now - cmap["general"].Interval}

\* C1: right after any Count() on a Counter that only Increment has filled, in
\* any order, the value returned is the number of recorded messages whose
\* timestamp is strictly greater than now - window (0 for an empty list and for
\* a list with no message inside the window).
C1_CountIsRecordedInWindow ==
    last.op = "Count" => last.n = Cardinality(RecordedInWindow)

\* C2: right after any Count() the list holds exactly the buckets whose
\* timestamp is strictly greater than now - window: none at or before the
\* boundary is left, none inside the window is gone.
C2_CountKeepsExactlyWindow ==
    last.op = "Count" =>
        {Buckets[i].utime : i \in 1..Len(Buckets)}
          = {recorded[i].ts : i \in RecordedInWindow}

\* the messages recorded with timestamp ts, in the order of the calls
MsgsAt(ts) ==
    LET F[i \in 0..Len(recorded)] ==
            IF i = 0 THEN <<>>
            ELSE IF recorded[i].ts = ts THEN Append(F[i - 1], recorded[i].msg)
            ELSE F[i - 1]
    IN  F[Len(recorded)]

\* C10: in every state reached by Increment, Count and clears no two buckets
\* carry the same timestamp, and a bucket holds, in arrival order, the last
\* `count` messages recorded with its timestamp (so two messages of one whole
\* second make one bucket of count 2 holding both in arrival order).
C10_OneBucketPerTimestamp ==
    /\ \A i, j \in 1..Len(Buckets) : i # j => Buckets[i].utime # Buckets[j].utime
    /\ \A i \in 1..Len(Buckets) :
          LET b == Buckets[i]
              all == MsgsAt(b.utime)
          IN  /\ b.count = Len(b.msgs)
              /\ b.count >= 1
              /\ b.count <= Len(all)
              /\ b.msgs = SubSeq(all, Len(all) - b.count + 1, Len(all))

\* two different messages of one whole second, recorded after a message of a
\* later second, sit in one bucket of count 2
C10_Witness ==
    /\ last.op = "Increment"
    /\ Len(Buckets) = 2
    /\ Buckets[1].utime > Buckets[2].utime
    /\ Buckets[2].count = 2
    /\ Buckets[2].msgs[1] # Buckets[2].msgs[2]

\* C18: Count is idempotent.  A call of Count leaves a list and returns a
\* value that a second call at the same time finds again: the second call
\* returns the same value and leaves the list exactly as the first left it.
C18_CountIdempotent ==
    [][LET interval == cmap["general"].Interval
           b1 == CountBuckets(Buckets, now, interval)
           v1 == CountValue(Buckets, now, interval)
       IN  /\ last'.op = "Count"
                => /\ cmap'["general"].buckets = b1 /\ last'.n = v1
                   /\ CountBuckets(b1, now, interval) = b1
                   /\ CountValue(b1, now, interval) = v1
           /\ (last.op = "Count" /\ last'.op = "Count")
                => /\ last'.n = last.n
                   /\ cmap'["general"].buckets = Buckets]_vars

\* Count has just dropped a bucket that was recorded since the list was last
\* nil, and kept another
C18_Witness ==
    /\ last.op = "Count"
    /\ last.n > 0
    /\ \E i \in 1..Len(recorded) : recorded[i].ts \notin Utimes(Buckets)

\* the message handed to the last direct call of Increment
CalledMsg == cur["general"].msg

\* C17: Increment of a message whose channel id differs from the counter's, or
\* whose timestamp is not a number, ends in the fatal state: the call records
\* nothing (the bucket list is as it was), the process is terminated, and no
\* call is handled after that (every step starts from a process that runs).
C17_RejectedMessageIsFatal ==
    [][/\ halted = "no"
       /\ (/\ last'.op = "Increment"
           /\ \/ cur'["general"].msg.Channel # cmap["general"].ChannelId
              \/ ~cur'["general"].msg.Timestamp.num)
            => /\ halted' = "fatal"
               /\ cmap' = cmap
               /\ recorded' = recorded]_vars

\* Increment has just rejected a message without a numeric timestamp, with
\* messages recorded before it
C17_Witness ==
    /\ last.op = "Increment"
    /\ halted = "fatal"
    /\ CalledMsg.Channel = "general"
    /\ ~CalledMsg.Timestamp.num
    /\ Buckets # <<>>

----------------------------------------------------------------------------
(* Claims about the dispatch loop and its goroutines (Spec) *)

\* the last step was a goroutine's `c.buckets = nil` on channel ch: the expiry
\* goroutine, or callYoda (which sends its one message after it)
GoroutineCleared(ch) ==
    /\ last.ch = ch
    /\ \/ last.op = "expire"
       \/ last.op \in {"send", "post"} /\ last.n = 1

\* the messages of the list of ch whose timestamp is inside the window at now
WindowCount(ch) ==
    LET bs == cmap[ch].buckets
        F[i \in 0..Len(bs)] ==
            IF i = 0 THEN 0
            ELSE F[i - 1] + (IF bs[i].utime > now - cmap[ch].Interval
                             THEN bs[i].count ELSE 0)
    IN  F[Len(bs)]

\* C3: a tick that finds Count() at or above MaxMsg starts one notifier, and
\* the notifier has sent its message and emptied the bucket list before the
\* dispatch loop handles the next message or tick of that channel: the loop
\* never takes a message or a tick while a notifier it started is still to
\* clear.
C3_AlertingTickEmptiesStore ==
    [][\A ch \in conf.Channels :
          /\ (last'.op = "count" /\ last'.ch = ch /\ halted' = "no"
                /\ last'.n >= cmap[ch].MaxMsg)
             => (last'.go = 1 /\ Len(tasks'[ch]) = Len(tasks[ch]) + 1)
          /\ (last'.op \in {"receive", "tick"} /\ last'.ch = ch)
             => tasks[ch] = <<>>]_vars

\* C4: a tick handled while the channel is Paused (pause timestamp > now) does
\* not start the notifier, sends nothing and leaves the bucket list as it was:
\* no Count, no clear, whatever the list holds.
C4_PausedTickIsNoOp ==
    [][\A ch \in conf.Channels :
          (last'.op = "tick" /\ last'.ch = ch /\ cmap[ch].meditationEnd > now)
          => /\ cmap'[ch] = cmap[ch]
             /\ tasks'[ch] = tasks[ch]
             /\ pc'[ch] = "select"
             /\ out' = <<>>]_vars

\* a tick was just handled on a Paused channel whose list holds at least
\* MaxMsg messages inside the window, and the loop is back at its select
C4_Witness ==
    \E ch \in conf.Channels :
        /\ last = Step("tick", ch)
        /\ cmap[ch].meditationEnd > now
        /\ WindowCount(ch) >= cmap[ch].MaxMsg
        /\ pc[ch] = "select"
        /\ tasks[ch] = <<>>

\* C5: no clear of the bucket list by a goroutine (callYoda, the pause-expiry
\* goroutine) happens while the dispatch loop of the same Counter is inside
\* Increment or Count.
C5_BucketAccessSerialized ==
    \A ch \in conf.Channels :
        ~(GoroutineCleared(ch) /\ pc[ch] \in {"incr", "count"})

\* C6: the expiry goroutine of a pause has cleared the bucket list no later
\* than the first tick that sees the channel Active again: a tick that goes on
\* to Count never finds an expiry goroutine of that channel still to clear.
C6_ExpiryClearsBeforeAlert ==
    \A ch \in conf.Channels :
        (last.op = "tick" /\ last.ch = ch /\ pc[ch] = "count")
        => timers[ch] = <<>>

\* C8: handling one inbound message acts on at most one command (each command
\* acted on sends exactly one message: the search reply, the topic reply, the
\* meditation reply).
C8_OneCommandPerMessage ==
    last.op = "receive" => Len(out) <= 1

\* C9: the Increment that ends the handling of a message taken from the queue
\* raises the sum of the bucket counts of that channel by one.
C9_HandlerRecordsMessage ==
    last.op = "increment" => last.n = 1

----------------------------------------------------------------------------
(* Claims about askToMeditate (SpecMeditate) *)

\* the text handed to the last call of askToMeditate
CalledText == cur["general"].msg.Text

\* a text that carries the pause command
IsPauseCommand(text) == meditateRegex(text) # <<>>

\* a pause command whose duration parses and is at least 0 and under an hour
HasAcceptableDuration(text) ==
    LET p == ParseDuration(meditateRegex(text))
    IN  IsPauseCommand(text) /\ p.ok /\ p.d >= 0 /\ p.d < Hour

\* C7 as stated: the pause timestamp changes only in a call with an acceptable
\* duration on an Active channel; any pause command handled while the channel
\* is Paused gets the 'I am meditating' reply, changes no timestamp and starts
\* no expiry goroutine; a rejected pause command changes no timestamp.
C7_AnyPauseWhilePausedIsMeditating ==
    [][LET c == cmap["general"]
           c2 == cmap'["general"]
           text == cur'["general"].msg.Text
           call == last'.op = "askToMeditate"
       IN  /\ c2.meditationEnd # c.meditationEnd
                => (call /\ HasAcceptableDuration(text) /\ c.meditationEnd <= now)
           /\ (call /\ IsPauseCommand(text) /\ c.meditationEnd > now)
                => /\ out' # <<>> /\ out'[1].msg = R_Meditating
                   /\ c2.meditationEnd = c.meditationEnd
                   /\ timers' = timers
           /\ (call /\ IsPauseCommand(text) /\ out'[1].msg # R_Okay)
                => c2.meditationEnd = c.meditationEnd]_vars

\* C7, amended: as above, but the 'I am meditating' reply is that of a pause
\* command whose duration is acceptable; a pause command with another duration
\* gets the reply for its duration, Paused or not, and changes nothing either.
C7_PauseTimestampFrame ==
    [][LET c == cmap["general"]
           c2 == cmap'["general"]
           text == cur'["general"].msg.Text
           call == last'.op = "askToMeditate"
       IN  /\ c2.meditationEnd # c.meditationEnd
                => (call /\ HasAcceptableDuration(text) /\ c.meditationEnd <= now)
           /\ (call /\ HasAcceptableDuration(text) /\ c.meditationEnd > now)
                => /\ out' # <<>> /\ out'[1].msg = R_Meditating
                   /\ c2.meditationEnd = c.meditationEnd
                   /\ timers' = timers
           /\ (call /\ IsPauseCommand(text) /\ out'[1].msg # R_Okay)
                => /\ c2.meditationEnd = c.meditationEnd
                   /\ timers' = timers]_vars

\* a pause command with an acceptable duration was just rejected on a Paused
\* channel; the expiry goroutine of the accepted pause is the only one
C7_Witness ==
    /\ last.op = "askToMeditate"
    /\ HasAcceptableDuration(CalledText)
    /\ cmap["general"].meditationEnd > now
    /\ out # <<>> /\ out[1].msg = R_Meditating
    /\ Len(timers["general"]) = 1

\* C11: askToMeditate gives exactly one outcome per message, decided in this
\* order: a text without the pause pattern gets no reply; an unparseable
\* duration "Sorry, I don't understand you."; a negative one the 'back in
\* time' reply; one of an hour or more the 'more than an hour' reply, Paused
\* or not; otherwise a Paused channel gives 'I am meditating' with the time
\* left; otherwise the pause is accepted with 'Okay' and the duration, the
\* pause timestamp is set and one expiry goroutine is started. Every outcome
\* but the last leaves the timestamp and the expiry goroutines alone.
C11_OutcomeOrder ==
    [][last'.op = "askToMeditate" =>
        LET c == cmap["general"]
            c2 == cmap'["general"]
            text == cur'["general"].msg.Text
            paused == c.meditationEnd > now
            d == ParseDuration(meditateRegex(text)).d
            same == c2 = c /\ timers' = timers
            said(reply, arg) ==
                out' = <<NewOutgoingMessage(reply, arg, "general")>>
        IN  /\ Len(out') <= 1
            /\ text \in {T_Plain, T_Misspelt} => out' = <<>> /\ same
            /\ text \in {T_MeditateHr, T_MeditateWords}
                  => said(R_Understand, 0) /\ same
            /\ text = T_MeditateBack => said(R_BackInTime, 0) /\ same
            /\ text \in {T_MeditateHour, T_MeditateLong}
                  => said(R_TooLong, 0) /\ same
            /\ (text \in {T_Meditate0, T_Meditate, T_Meditate40} /\ paused)
                  => said(R_Meditating, c.meditationEnd - now) /\ same
            /\ (text \in {T_Meditate0, T_Meditate, T_Meditate40} /\ ~paused)
                  => /\ said(R_Okay, d)
                     /\ c2 = [c EXCEPT !.meditationEnd = now + d]
                     /\ timers' = [timers EXCEPT !["general"] =
                                      Append(@, now + d)]]_vars

\* a pause command of more than an hour was just answered with the 'more than
\* an hour' reply on a Paused channel: the duration is tested before the pause
C11_Witness ==
    /\ last.op = "askToMeditate"
    /\ CalledText = T_MeditateLong
    /\ cmap["general"].meditationEnd > now
    /\ out = <<NewOutgoingMessage(R_TooLong, 0, "general")>>

----------------------------------------------------------------------------
(* Claims about the notifier (Spec) *)

\* C12: for one threshold crossing at most one alert attempt is made: a Count
\* at or above MaxMsg starts the notifier only over buckets that no earlier
\* Count has started a notifier for (the history variable alerted holds the
\* timestamps of those that are still in the list).
C12_OneAlertPerCrossing ==
    [][\A ch \in conf.Channels :
          (last'.op = "count" /\ last'.ch = ch /\ last'.go = 1)
            => alerted[ch] \cap Utimes(cmap'[ch].buckets) = {}]_vars

\* C13: each notifier invocation sends exactly one outbound message to the
\* counter's own channel and then clears the store, the send before the clear:
\* when the invocation completes, which is when its message has been sent, the
\* step has sent that one message and the store is empty.
C13_SendThenClear ==
    \A ch \in conf.Channels :
        (last.op = "yoda" /\ last.ch = ch)
          => /\ Len(out) = 1
             /\ out[1].channel = cmap[ch].ChannelId
             /\ cmap[ch].buckets = <<>>

\* C14: if archive creation fails during a threshold notification, whatever
\* the failure, the alert is still sent (without a link) and the actor keeps
\* running: after the step in which createTopic's request ends nothing has
\* terminated and the goroutine has gone on into callYoda, where a topic that
\* was not created gives the message without a link.
C14_CreateFailureStillAlerts ==
    \A ch \in conf.Channels :
        (last.op = "post" /\ last.ch = ch)
          => /\ halted = "no"
             /\ \E i \in 1..Len(tasks[ch]) : tasks[ch][i].pc = "yoda"

----------------------------------------------------------------------------
(* Claims about the commands (Spec) *)

\* a text with the archive command and without the search command
IsArchiveOnly(text) == createRegex(text) # <<>> /\ ~queryRegex(text).match

\* C15: with a discourse key set, handling an archive command always clears
\* the bucket list of everything recorded before it, whether or not the topic
\* was created, so that once the message itself has been recorded the list
\* holds exactly that one message.
C15_ArchiveLeavesOnlyTrigger ==
    [][\A ch \in conf.Channels :
          (conf.DiscKey /\ last'.ch = ch) =>
            /\ (last'.op = "receive" /\ IsArchiveOnly(Head(cmap[ch].messages).Text))
                 => /\ halted' = "no"
                    /\ cmap'[ch].buckets = <<>>
                    /\ pc'[ch] = "incr"
            /\ (last'.op = "increment" /\ IsArchiveOnly(cur[ch].msg.Text))
                 => cmap'[ch].buckets =
                      <<[utime |-> Int64Of(cur[ch].msg.Timestamp), count |-> 1,
                         msgs |-> <<FormatMsg(cur[ch].msg)>>]>>]_vars

\* C16, for the archive command (the replies to a malformed or disallowed
\* pause duration are those of C11, and neither they nor an empty search
\* result reach a log.Fatal): an archive-creation failure produces a reply to
\* the originating channel and never terminates the actor.  Whatever
\* createTopic's request ends in, the handler of an archive command sends a
\* 'New topic created' reply to its channel and the process runs on.
C16_ArchiveFailureReplies ==
    [][\A ch \in conf.Channels :
          (/\ conf.DiscKey
           /\ last'.op = "receive" /\ last'.ch = ch
           /\ IsArchiveOnly(Head(cmap[ch].messages).Text))
            => /\ halted' = "no"
               /\ \E i \in 1..Len(out') :
                     /\ out'[i].msg = R_NewTopic
                     /\ out'[i].channel = cmap[ch].ChannelId]_vars

----------------------------------------------------------------------------
(* Claims about progress (SpecLive) *)

\* C19: if more than MaxMsg messages with timestamps inside the window are on
\* record for a channel that is not paused, an alert is eventually sent to
\* that channel, given that ticks keep occurring.
C19_CrossingLeadsToAlert ==
    \A ch \in ChannelIds :
        (/\ ch \in conf.Channels
         /\ NotMeditating(cmap[ch], now)
         /\ WindowCount(ch) > cmap[ch].MaxMsg)
          ~> (/\ last.op = "yoda" /\ last.ch = ch
              /\ \E i \in 1..Len(out) :
                    out[i].msg = R_Yoda /\ out[i].channel = ch)

----------------------------------------------------------------------------
(* Claims about two channels (SpecTwo) *)

\* C20: channels are independent: a step of the listener, the dispatch loop, a
\* notifier goroutine or an expiry goroutine of one channel never changes the
\* Counter of another channel: its bucket list, its pause timestamp and its
\* queue stay as they are.
C20_ChannelsIndependent ==
    [][\A ch \in conf.Channels : \A other \in conf.Channels \ {ch} :
          last'.ch = ch
            => /\ cmap'[other].buckets = cmap[other].buckets
               /\ cmap'[other].meditationEnd = cmap[other].meditationEnd
               /\ cmap'[other].messages = cmap[other].messages]_vars

\* the expiry goroutine of one channel has just cleared its list while the
\* other channel has a message on record
C20_Witness ==
    /\ last.op = "expire"
    /\ last.ch = "general"
    /\ cmap["general"].buckets = <<>>
    /\ cmap["random"].buckets # <<>>

----------------------------------------------------------------------------
(* Claims about the queue and the pause timestamp (Spec) *)

\* C21: the number of messages waiting in a channel's queue never exceeds
\* its capacity; a message that arrives while the queue is full is not added
\* (the listener holds it, and the queue is as long as it was).
C21_QueueWithinCapacity ==
    /\ \A ch \in conf.Channels : Len(cmap[ch].messages) <= QueueCap
    /\ held # NoMsg => held.Channel \in conf.Channels
    /\ (held # NoMsg /\ last.op = "listen")
          => Len(cmap[held.Channel].messages) = QueueCap

\* a message has just arrived for a channel whose queue is full
C21_Witness ==
    /\ last.op = "listen"
    /\ held # NoMsg
    /\ Len(cmap[held.Channel].messages) = QueueCap

\* an accepted pause of ch has not ended: its expiry goroutine is still asleep
PauseRunning(ch) == \E i \in 1..Len(timers[ch]) : timers[ch][i] > now

----------------------------------------------------------------------------
(* Claims about the transcript (Spec) *)

\* raw lists every message of every bucket of bs once, bucket after bucket and
\* inside a bucket in the order of its messages, numbered from 1
IsTranscriptOf(raw, bs) ==
    LET off[i \in 1..(Len(bs) + 1)] ==
            IF i = 1 THEN 0 ELSE off[i - 1] + Len(bs[i - 1].msgs)
    IN  /\ Len(raw) = off[Len(bs) + 1]
        /\ \A k \in 1..Len(raw) : raw[k].n = k
        /\ \A i \in 1..Len(bs) : \A j \in 1..Len(bs[i].msgs) :
              raw[off[i] + j].m = bs[i].msgs[j]

\* C23: building the transcript does not change the bucket list, and it lists
\* every message of every bucket exactly once, in bucket order and inside a
\* bucket in arrival order, numbered consecutively from 1; an empty list gives
\* an empty block.
C23_TranscriptListsStore ==
    [][\A ch \in conf.Channels :
          (/\ last'.op = "send" /\ last'.ch = ch
           /\ conf.DiscKey /\ halted' = "no")
            => /\ cmap' = cmap
               /\ Transcript(<<>>) = <<>>
               /\ \E i \in 1..Len(tasks'[ch]) :
                     /\ tasks'[ch][i].pc = "post"
                     /\ IsTranscriptOf(tasks'[ch][i].raw, cmap[ch].buckets)
               /\ \A i \in 1..Len(tasks'[ch]) :
                     tasks'[ch][i].pc = "post"
                       => \A k \in 1..Len(tasks'[ch][i].raw) :
                             tasks'[ch][i].raw[k].n = k]_vars

\* a notifier has just rendered a list of two buckets
C23_Witness ==
    \E ch \in conf.Channels :
        /\ last.op = "send" /\ last.ch = ch
        /\ Len(cmap[ch].buckets) = 2
        /\ \E i \in 1..Len(tasks[ch]) :
              /\ tasks[ch][i].pc = "post"
              /\ Len(tasks[ch][i].raw) = 2
              /\ IsTranscriptOf(tasks[ch][i].raw, cmap[ch].buckets)

----------------------------------------------------------------------------
(* sanitizeTitle called directly (SpecTitle) *)

\* a title is written as a sequence of characters; a Go string is the sequence
\* of the bytes of its UTF-8 encoding
Chars == {"space", "tab", "a", "e_acute"}

\* the UTF-8 encoding of a character: one byte for the ASCII ones, two for the
\* accented letter
Utf8(ch) ==
    CASE ch = "space" -> <<32>>
      [] ch = "tab" -> <<9>>
      [] ch = "a" -> <<97>>
      [] ch = "e_acute" -> <<195, 169>>

RECURSIVE Bytes(_)
Bytes(title) ==
    IF title = <<>> THEN <<>> ELSE Utf8(Head(title)) \o Bytes(Tail(title))

\* utf8.RuneCountInString: the number of characters of a byte string, a byte
\* that does not begin a whole encoding counting as one
RECURSIVE RuneCount(_)
RuneCount(t) ==
    IF t = <<>> THEN 0
    ELSE IF Len(t) >= 2 /\ t[1] = 195 /\ t[2] = 169
         THEN 1 + RuneCount(SubSeq(t, 3, Len(t)))
         ELSE 1 + RuneCount(Tail(t))

\* strings.Trim(title, " "): the bytes of the cutset, the space alone, are
\* taken off both ends
RECURSIVE TrimLeft(_)
TrimLeft(t) ==
    IF t # <<>> /\ Head(t) = 32 THEN TrimLeft(Tail(t)) ELSE t

RECURSIVE TrimRight(_)
TrimRight(t) ==
    IF t # <<>> /\ t[Len(t)] = 32 THEN TrimRight(SubSeq(t, 1, Len(t) - 1)) ELSE t

Trim(t) == TrimRight(TrimLeft(t))

\* strings.LastIndex(t, " "): the zero-based byte index of the last space, -1
\* when there is none
LastIndex(t) ==
    LET at == {i \in 1..Len(t) : t[i] = 32}
    IN  IF at = {} THEN -1 ELSE (CHOOSE i \in at : \A j \in at : j <= i) - 1

minLen == 20
maxLen == 100

\* "Topic created by wisemonk with title: "
TitlePrefix ==
    <<84, 111, 112, 105, 99, 32, 99, 114, 101, 97, 116, 101, 100, 32, 98, 121,
      32, 119, 105, 115, 101, 109, 111, 110, 107, 32, 119, 105, 116, 104, 32,
      116, 105, 116, 108, 101, 58, 32>>

\* sanitizeTitle on the bytes of the title; len and the slices count bytes
sanitizeTitle(title) ==
    LET t == Trim(title)
        cut == IF Len(t) > maxLen THEN SubSeq(t, 1, maxLen) ELSE t
        idx == LastIndex(cut)
    IN  IF Len(t) < minLen THEN TitlePrefix \o t
        ELSE IF idx # -1 /\ idx >= minLen THEN SubSeq(cut, 1, idx)
        ELSE cut

\* the longest run of blanks put before and after a title
MaxPad == 1

Run(ch, n) == [i \in 1..n |-> ch]

\* lengths of the first and of the second word of a title
FirstLens == {5, 11, 19, 20, 21, 60}
SecondLens == {0, 8, 20, 45, 80}

\* the titles called with: blanks, a word, possibly a space and a second word,
\* blanks; words of ASCII letters or of accented letters
Titles ==
    {Run(b1, l) \o Run(k1, n1) \o Run("space", sep) \o Run(k2, n2) \o Run(b2, r) :
        b1 \in {"space", "tab"}, l \in 0..MaxPad, k1 \in {"a", "e_acute"},
        n1 \in FirstLens, sep \in 0..1, k2 \in {"a", "e_acute"},
        n2 \in SecondLens, b2 \in {"space", "tab"}, r \in 0..MaxPad}

\* sendMessage and createNewTopic computing the title of the topic; one call
\* in a run, the function keeping nothing from one call to the next
CallSanitize(title) ==
    /\ Running
    /\ arrived = 0
    /\ arrived' = 1
    /\ out' = <<[title |-> title, res |-> sanitizeTitle(Bytes(title))]>>
    /\ last' = Step("sanitize", "general")
    /\ UNCHANGED <<now, conf, cmap, pc, cur, raced, tasks, timers, held,
                   halted, recorded, alerted>>

DoCallSanitize == \E title \in Titles : CallSanitize(title)

NextTitle == DoCallSanitize

SpecTitle == InitWith({"general"}, {TRUE}) /\ [][NextTitle]_vars

----------------------------------------------------------------------------
(* Claims about titles (SpecTitle) *)

\* the title of the last call and what the call returned
CalledTitle == out[1].title
TitleResult == out[1].res

\* a title without its leading and trailing white space, in characters
RECURSIVE StripLeft(_)
StripLeft(title) ==
    IF title # <<>> /\ Head(title) \in {"space", "tab"}
    THEN StripLeft(Tail(title)) ELSE title

RECURSIVE StripRight(_)
StripRight(title) ==
    IF title # <<>> /\ title[Len(title)] \in {"space", "tab"}
    THEN StripRight(SubSeq(title, 1, Len(title) - 1)) ELSE title

Trimmed(title) == StripRight(StripLeft(title))

\* C24: the title is trimmed of leading and trailing white space before any
\* length check, and a title whose trimmed length is under 20 characters comes
\* back as "Topic created by wisemonk with title: " followed by the trimmed
\* title.
C24_ShortTitleGetsPrefix ==
    (last.op = "sanitize" /\ Len(Trimmed(CalledTitle)) < minLen)
        => TitleResult = TitlePrefix \o Bytes(Trimmed(CalledTitle))

\* a title in characters cut to at most 100 characters and then at its last
\* space when that space is at position 20 or later
CutAtWordBreak(title) ==
    LET cut == IF Len(title) > maxLen THEN SubSeq(title, 1, maxLen) ELSE title
        at == {i \in 1..Len(cut) : cut[i] = "space"}
        idx == IF at = {} THEN -1 ELSE (CHOOSE i \in at : \A j \in at : j <= i) - 1
    IN  IF idx >= minLen THEN SubSeq(cut, 1, idx) ELSE cut

\* C25: for a title whose trimmed length is at least 20 characters the result
\* has between 20 and 100 characters: a title of exactly 20 characters comes
\* back unchanged, a longer one is cut to at most 100 characters and then at
\* its last space when that space is at position 20 or later.
C25_LongTitleIsCut ==
    (last.op = "sanitize" /\ Len(Trimmed(CalledTitle)) >= minLen)
        => /\ RuneCount(TitleResult) >= minLen
           /\ RuneCount(TitleResult) <= maxLen
           /\ Len(Trimmed(CalledTitle)) = minLen
                => TitleResult = Bytes(Trimmed(CalledTitle))
           /\ TitleResult = Bytes(CutAtWordBreak(Trimmed(CalledTitle)))

----------------------------------------------------------------------------
(* searchDiscourse called directly, as main_test.go calls it (SpecSearch) *)

T_Search == <<"wisemonk", "search", "something">>
T_QueryNoCount == <<"wisemonk", "query", "test">>
T_QueryWordCount == <<"wisemonk", "query", "release", "five">>

SearchTexts == {T_Plain, T_Search, T_Query, T_QueryNoCount, T_QueryWordCount, T_All}

CallSearch(text, sr) ==
    /\ Running
    /\ LET s == searchDiscourse(cmap["general"], conf.DiscKey, text, sr)
       IN  /\ out' = s.sent
           /\ halted' = IF s.fatal THEN "fatal" ELSE halted
    /\ cur' = [cur EXCEPT !["general"] =
                 [msg |-> Msg("general", NoStamp, text), idx |-> 0,
                  seen |-> <<>>]]
    /\ last' = Step("searchDiscourse", "general")
    /\ UNCHANGED <<now, conf, cmap, pc, raced, tasks, timers, held, arrived,
                   recorded, alerted>>

DoCallSearch == \E text \in SearchTexts, sr \in SearchResults : CallSearch(text, sr)

\* a pause command accepted before the search
DoCallPause == Running /\ CallMeditate(T_Meditate)

NextSearch ==
    \/ DoCallSearch
    \/ DoCallIncrement
    \/ DoCallPause

SpecSearch == InitWith({"general"}, BOOLEAN) /\ [][NextSearch]_vars

----------------------------------------------------------------------------
(* Claims about the search command (SpecSearch) *)

\* a text that uses the query command: "wisemonk query" and a query after it
UsesQueryCommand(text) ==
    LET i == IndexFrom(text, <<"wisemonk", "query">>, 1)
    IN  i # 0 /\ i + 2 <= Len(text)

\* a text whose query command ends in an integer result count
HasResultCount(text) ==
    LET i == IndexFrom(text, <<"wisemonk", "query">>, 1)
    IN  /\ UsesQueryCommand(text) /\ i + 3 <= Len(text)
        /\ text[Len(text)] \in {"5"}

\* C26: with archiving configured, searchDiscourse sends exactly one reply for
\* every message that uses the query command, the "didn't understand" reply
\* when the result count is missing or is no integer, and sends nothing for a
\* message that does not use the command; it never changes the bucket list or
\* the pause timestamp.
C26_OneReplyPerQuery ==
    [][last'.op = "searchDiscourse"
         => LET text == cur'["general"].msg.Text
            IN  /\ cmap' = cmap
                /\ (conf.DiscKey /\ UsesQueryCommand(text)) => Len(out') = 1
                /\ (conf.DiscKey /\ UsesQueryCommand(text) /\ ~HasResultCount(text))
                     => out' = <<NewOutgoingMessage(R_DidntUnderstand, 0, "general")>>
                /\ ~UsesQueryCommand(text) => out' = <<>>]_vars

----------------------------------------------------------------------------
(* Claims about the tick (Spec) *)

\* C27: a tick performs the threshold check (Count and the comparison with
\* MaxMsg) if and only if the channel is Active, that is the pause timestamp is
\* at or before now; this includes the instant at which the pause timestamp
\* equals now and a Counter that was never paused.
C27_TickChecksIffActive ==
    [][\A ch \in conf.Channels :
          (last'.op = "tick" /\ last'.ch = ch)
            => (pc'[ch] = "count" <=> cmap[ch].meditationEnd <= now)]_vars

\* C28: no alert is spurious: the tick starts the notifier only when at least
\* MaxMsg recorded messages that are still in the list have timestamps
\* strictly inside the trailing window at that tick; messages older than the
\* window never count toward the threshold.
C28_NoSpuriousAlert ==
    [][\A ch \in conf.Channels :
          (last'.op = "count" /\ last'.ch = ch /\ last'.go = 1)
            => WindowCount(ch) >= cmap[ch].MaxMsg]_vars

\* C29: whenever a notifier with archiving enabled reads the first message of
\* the first bucket to build the title of the topic, the bucket list is not
\* empty, whatever the interleaving of ticks, messages, other notifiers,
\* archive commands and pause expiries.
C29_TitleReadOnNonEmptyStore ==
    [][\A ch \in conf.Channels :
          (last'.op = "send" /\ last'.ch = ch /\ conf.DiscKey)
            => cmap[ch].buckets # <<>>]_vars

\* how many lines of a transcript carry the message m
Occurrences(raw, m) == Cardinality({k \in 1..Len(raw) : raw[k].m = m})

\* the lines of the buckets of ch that no Count has counted since the list was
\* last cleared
UncountedLines(ch) ==
    Transcript(SelectSeq(cmap[ch].buckets,
                         LAMBDA b : b.utime \notin alerted[ch]))

\* C30: a notifier clears from the list only messages that it put in its
\* transcript: at its `c.buckets = nil` every message of the list that no tick
\* has counted is a line of the transcript it posted.
C30_ClearsOnlyArchived ==
    [][\A ch \in conf.Channels :
          (last'.op = "post" /\ last'.ch = ch /\ last'.n = 1)
            => \E i \in 1..Len(tasks[ch]) :
                 /\ tasks[ch][i].pc = "post"
                 /\ \E link \in {0, 1} :
                      tasks'[ch] = PutTask(RemoveAt(tasks[ch], i),
                                           [pc |-> "yoda", raw |-> <<>>,
                                            link |-> link])
                 /\ LET lines == UncountedLines(ch)
                    IN  \A k \in 1..Len(lines) :
                          Occurrences(lines, lines[k].m)
                            <= Occurrences(tasks[ch][i].raw, lines[k].m)]_vars

----------------------------------------------------------------------------
(* Claims about the expiry of a pause (SpecMeditate) *)

\* C31: a channel has at most one pending pause-expiry goroutine at any time: a
\* new pause is accepted only after the expiry goroutine of the previous one
\* has run, so an expiry goroutine never clears the bucket list in the middle
\* of a later pause; for every accepted duration, zero included.
C31_OnePendingExpiry ==
    [][\A ch \in conf.Channels :
          /\ Len(timers'[ch]) <= 1
          /\ (last'.op = "expire" /\ last'.ch = ch)
               => cmap[ch].meditationEnd <= now]_vars

----------------------------------------------------------------------------
(* Claims about a notifier and a pause (Spec) *)

\* C32: while a channel is Paused (pause timestamp > now) no alert is sent to
\* it and no notifier clears its bucket list: a notifier that a tick started
\* before the pause was accepted neither reaches callYoda's `c.buckets = nil`
\* nor sends its message during the pause.
C32_NoAlertWhilePaused ==
    [][\A ch \in conf.Channels :
          (cmap[ch].meditationEnd > now /\ last'.ch = ch)
            => /\ last'.op # "yoda"
               /\ ~(last'.op \in {"send", "post"} /\ last'.n = 1)]_vars

----------------------------------------------------------------------------
(* Claims about Count's sort and left shift (SpecCounter) *)

\* C33: after Count's sort and left shift the buckets that are left are in
\* strictly ascending order of timestamp, each of them is a bucket of the list
\* before the call with the timestamp, count and messages it had, and the sum
\* of their counts is the value returned.
C33_SurvivorsSortedAndIntact ==
    [][last'.op = "Count"
         => LET pre == Buckets
                post == cmap'["general"].buckets
            IN  /\ \A i \in 1..(Len(post) - 1) : post[i].utime < post[i + 1].utime
                /\ \A i \in 1..Len(post) : \E j \in 1..Len(pre) : pre[j] = post[i]
                /\ SumCounts(post) = last'.n]_vars

\* Count has just dropped a bucket and kept two that were recorded the later
\* one first
C33_Witness ==
    /\ last.op = "Count"
    /\ Len(Buckets) >= 2
    /\ \E i \in 1..Len(recorded) : recorded[i].ts \notin Utimes(Buckets)
    /\ \E i, j \in 1..Len(recorded) :
          /\ i < j /\ recorded[i].ts > recorded[j].ts
          /\ {recorded[i].ts, recorded[j].ts} \subseteq Utimes(Buckets)

----------------------------------------------------------------------------
(* Claims about the listener and the queues (Spec, SpecTwo) *)

\* C34: every message in the queue of a channel carries the id of that channel
\* (and so does the message the listener holds at a full queue and the message
\* the dispatch loop is recording); a message of a channel that is not
\* configured is dropped: it changes no queue; so the dispatch loop never takes
\* a message that fails Increment's channel check.
C34_QueueHoldsOwnMessages ==
    [][/\ \A ch \in conf.Channels :
            /\ cmap'[ch].ChannelId = ch
            /\ \A i \in 1..Len(cmap'[ch].messages) :
                  cmap'[ch].messages[i].Channel = cmap'[ch].ChannelId
            /\ pc'[ch] = "incr" => cur'[ch].msg.Channel = cmap'[ch].ChannelId
            /\ (last'.op = "receive" /\ last'.ch = ch)
                  => Head(cmap[ch].messages).Channel = cmap[ch].ChannelId
       /\ held' # NoMsg => held'.Channel \in conf.Channels
       /\ (last'.op = "listen" /\ last'.ch \notin conf.Channels)
            => cmap' = cmap /\ held' = held]_vars

\* a message of a channel that is not configured has just been dropped while
\* the queue of the configured channel holds a message
C34_Witness ==
    /\ last.op = "listen"
    /\ last.ch \notin conf.Channels
    /\ \E ch \in conf.Channels : cmap[ch].messages # <<>>

\* C35: a full queue of one channel never keeps the listener from delivering
\* to another channel: while the listener is at a full queue with a message it
\* cannot send, no other channel's queue has room that the next message for
\* that channel would have to wait for (the listener is free whenever a queue
\* other than the full one can take a message).
C35_FullQueueBlocksOnlyItself ==
    held # NoMsg
      => \A other \in conf.Channels \ {held.Channel} :
            Len(cmap[other].messages) >= QueueCap

====
